---- MODULE Spec2Model ----
(***************************************************************************)
(* libfreelan: IP network addresses (address + prefix length) over IPv4    *)
(* and IPv6, their containment test, their textual parsing and printing,   *)
(* the boost::variant over the two families, the list search and the       *)
(* request of the HTTP client that decodes a JSON body.                    *)
(*                                                                         *)
(* Three specifications share the variables:                                 *)
(*   SpecNet  the containment operations applied to drawn inputs,          *)
(*   Spec     the stream operations (operator>> and operator<<),           *)
(*   SpecClient  the requests of the HTTP client.                          *)
(***************************************************************************)
EXTENDS Integers, Sequences, FiniteSets, TLC

VARIABLES
    call,     \* the last operation called, with its arguments and outcome
    is,       \* the std::istream the parse operators read
    value4,   \* the ipv4_network_address target of operator>>
    value6,   \* the ipv6_network_address target of operator>>
    valueU,   \* the ip_network_address (variant) target of operator>>
    origin,   \* the value operator<< wrote into the stream, or NoValue
    m_data,   \* client::m_data, the body received by the write function
    values    \* the values_type map the caller hands to perform_request

vars == <<call, is, value4, value6, valueU, origin, m_data, values>>

(***************************************************************************)
(* Bounds of the model.                                                    *)
(***************************************************************************)
\* how far above the family's bit width the drawn prefix lengths go
MaxExcess == 9
\* the longest list handed to the range form of has_address
MaxListLen == 3

(***************************************************************************)
(* Program constants.                                                      *)
(***************************************************************************)
\* CHAR_BIT steps of the byte walk: "prefix_len >= 8", "prefix_len -= 8"
ByteBits == 8
\* static_cast<unsigned char>(0xFF)
ByteMax == 255
\* boost::asio::ip::address_v4::bytes_type holds 4 bytes
V4Bytes == 4
\* boost::asio::ip::address_v6::bytes_type holds 16 bytes
V6Bytes == 16
\* std::numeric_limits<unsigned int>::max(), in decimal digits: the largest
\* text boost::lexical_cast<unsigned int> converts.  (The model checker's
\* integers end at 2^31 - 1, so no prefix length drawn lies above that.)
UIntMaxDigits == "4294967295"

Families == {"v4", "v6"}

NBytes(fam) == IF fam = "v4" THEN V4Bytes ELSE V6Bytes

Width(fam) == NBytes(fam) * ByteBits

RECURSIVE Pow2(_)
Pow2(n) == IF n = 0 THEN 1 ELSE 2 * Pow2(n - 1)

(***************************************************************************)
(* Bit operations on unsigned char operands, bit by bit.                   *)
(***************************************************************************)
RECURSIVE BitAnd(_, _)
BitAnd(x, y) ==
    IF x = 0 \/ y = 0 THEN 0
    ELSE (IF x % 2 = 1 /\ y % 2 = 1 THEN 1 ELSE 0) + 2 * BitAnd(x \div 2, y \div 2)

RECURSIVE BitXor(_, _)
BitXor(x, y) ==
    IF x = 0 THEN y
    ELSE IF y = 0 THEN x
    ELSE (IF x % 2 = y % 2 THEN 0 ELSE 1) + 2 * BitXor(x \div 2, y \div 2)

ShiftRight(x, n) == x \div Pow2(n)

(***************************************************************************)
(* base_ip_network_address<AddressType>: m_address, m_prefix_length.       *)
(* An address is its to_bytes() sequence; the family is the template       *)
(* argument (and, in the variant, the active alternative).                 *)
(***************************************************************************)
ZeroBytes(fam) == [i \in 1..NBytes(fam) |-> 0]

\* base_ip_network_address(_address, _prefix_length)
NetworkAddress(fam, bytes, prefix_length) ==
    [fam |-> fam, address |-> bytes, prefix_length |-> prefix_length]

\* base_ip_network_address(): m_address(), m_prefix_length(0)
DefaultNetworkAddress(fam) == NetworkAddress(fam, ZeroBytes(fam), 0)

\* a boost::asio::ip::address: the family tag and the bytes
IpAddress(fam, bytes) == [fam |-> fam, bytes |-> bytes]

(***************************************************************************)
(* has_address: the byte walk of ip_network_address.cpp.                   *)
(***************************************************************************)
\* the mask computed with the shift taken by the complement of prefix_len
mask_complement_shift(prefix_len) ==
    BitXor(ShiftRight(ByteMax, ByteBits - prefix_len), ByteMax) % (ByteMax + 1)

\* the mask computed without the final exclusive or
mask_no_xor(prefix_len) == ShiftRight(ByteMax, prefix_len) % (ByteMax + 1)

\* mask = (static_cast<unsigned char>(0xFF) >> prefix_len) ^ 0xFF, as unsigned char
mask(prefix_len) == BitXor(ShiftRight(ByteMax, prefix_len), ByteMax) % (ByteMax + 1)

\* the masked comparison with the mask applied to the network byte only
masked_differs_one_sided(network_byte, addr_byte, m) ==
    BitAnd(network_byte, m) # addr_byte

\* the comparison made on the bits the mask leaves out
masked_differs_outside_mask(network_byte, addr_byte, m) ==
    BitAnd(network_byte, BitXor(m, ByteMax)) # BitAnd(addr_byte, BitXor(m, ByteMax))

\* (network_bytes[i] & mask) != (addr_bytes[i] & mask)
masked_differs(network_byte, addr_byte, m) ==
    BitAnd(network_byte, m) # BitAnd(addr_byte, m)

\* the for loop from index i (1-based) with prefix_len bits left, up to byte `size`
RECURSIVE has_address_walk(_, _, _, _, _)
has_address_walk(network_bytes, addr_bytes, size, i, prefix_len) ==
    IF i > size THEN TRUE
    ELSE IF prefix_len >= ByteBits
         THEN IF network_bytes[i] # addr_bytes[i]
              THEN FALSE
              ELSE has_address_walk(network_bytes, addr_bytes, size, i + 1,
                                    prefix_len - ByteBits)
         ELSE IF masked_differs(network_bytes[i], addr_bytes[i], mask(prefix_len))
              THEN FALSE
              ELSE TRUE

\* the walk stopping one byte short of network_bytes.size()
has_address_short_loop(net, addr_bytes) ==
    has_address_walk(net.address, addr_bytes, Len(net.address) - 1, 1, net.prefix_length)

\* base_ip_network_address<AddressType>::has_address(addr)
has_address(net, addr_bytes) ==
    has_address_walk(net.address, addr_bytes, Len(net.address), 1, net.prefix_length)

(***************************************************************************)
(* The variant's visitor.  to_v4()/to_v6() of an address of the other      *)
(* family throws (bad_address_cast): an outcome is [threw, ret].           *)
(***************************************************************************)
Returned(b) == [threw |-> FALSE, ret |-> b]

Threw == [threw |-> TRUE, ret |-> FALSE]

\* the visitor without the is_v4()/is_v6() test: converts the probe at once
visitor_no_family_test(ina, addr) ==
    IF addr.fam # ina.fam THEN Threw ELSE Returned(has_address(ina, addr.bytes))

\* ip_network_address_has_address_visitor::operator()(ina):
\*   m_addr.is_v4() && ina.has_address(m_addr.to_v4())   (and the v6 twin)
has_address_visitor(ina, addr) ==
    IF addr.fam = ina.fam
    THEN Returned(has_address(ina, addr.bytes))
    ELSE Returned(FALSE)

\* has_address(const ip_network_address& ina, addr): boost::apply_visitor
has_address_union(ina, addr) == has_address_visitor(ina, addr)

(***************************************************************************)
(* The range form walks [begin, end) and returns true at the first element *)
(* that has the address, false when none has.  The outcome carries the     *)
(* indices of the elements evaluated, in order.                            *)
(***************************************************************************)
RECURSIVE has_address_from(_, _, _, _)
has_address_from(list, begin, addr, evaluated) ==
    IF begin > Len(list)
    THEN [threw |-> FALSE, ret |-> FALSE, evaluated |-> evaluated]
    ELSE LET r == has_address_union(list[begin], addr)
             ev == Append(evaluated, begin)
         IN  IF r.threw THEN [threw |-> TRUE, ret |-> FALSE, evaluated |-> ev]
             ELSE IF r.ret THEN [threw |-> FALSE, ret |-> TRUE, evaluated |-> ev]
             ELSE has_address_from(list, begin + 1, addr, ev)

\* the loop starting at the second element
has_address_range_skip_first(list, addr) == has_address_from(list, 2, addr, <<>>)

\* every element evaluated, the answers combined afterwards
has_address_range_no_return(list, addr) ==
    [threw |-> FALSE,
     ret |-> \E i \in 1..Len(list) : has_address_union(list[i], addr).ret,
     evaluated |-> [i \in 1..Len(list) |-> i]]

\* has_address(begin, end, addr)
has_address_range(list, addr) == has_address_from(list, 1, addr, <<>>)

(***************************************************************************)
(* Text.  A text is a string; Char(s, i) is its i-th character.            *)
(***************************************************************************)
Char(s, i) == SubSeq(s, i, i)

\* the part of s from its i-th character on
From(s, i) == SubSeq(s, i, Len(s))

Digits == {"0", "1", "2", "3", "4", "5", "6", "7", "8", "9"}

HexDigits == Digits \cup {"a", "b", "c", "d", "e", "f", "A", "B", "C", "D", "E", "F"}

HexString == "0123456789abcdef"

\* the value of a (hexa)decimal digit
DigitValue(c) ==
    CASE c = "0" -> 0 [] c = "1" -> 1 [] c = "2" -> 2 [] c = "3" -> 3
      [] c = "4" -> 4 [] c = "5" -> 5 [] c = "6" -> 6 [] c = "7" -> 7
      [] c = "8" -> 8 [] c = "9" -> 9
      [] c \in {"a", "A"} -> 10 [] c \in {"b", "B"} -> 11 [] c \in {"c", "C"} -> 12
      [] c \in {"d", "D"} -> 13 [] c \in {"e", "E"} -> 14 [] c \in {"f", "F"} -> 15

\* printf("%u", n) and printf("%x", n)
RECURSIVE InBase(_, _)
InBase(n, base) ==
    IF n < base THEN Char(HexString, n + 1)
    ELSE InBase(n \div base, base) \o Char(HexString, (n % base) + 1)

Decimal(n) == InBase(n, 10)

Hex(n) == InBase(n, 16)

\* the value of a text of decimal digits
RECURSIVE DecimalValue(_)
DecimalValue(s) ==
    IF s = "" THEN 0
    ELSE 10 * DecimalValue(SubSeq(s, 1, Len(s) - 1)) + DigitValue(Char(s, Len(s)))

\* s without its leading zeros
RECURSIVE StripZeros(_)
StripZeros(s) == IF Len(s) > 1 /\ Char(s, 1) = "0" THEN StripZeros(From(s, 2)) ELSE s

\* s < t for two texts of decimal digits of one length
RECURSIVE DigitsLess(_, _)
DigitsLess(s, t) ==
    IF s = "" THEN FALSE
    ELSE IF Char(s, 1) # Char(t, 1) THEN DigitValue(Char(s, 1)) < DigitValue(Char(t, 1))
    ELSE DigitsLess(From(s, 2), From(t, 2))

\* the longest run of characters of `set` in s from its i-th character
RECURSIVE RunOf(_, _, _)
RunOf(s, i, set) ==
    IF i <= Len(s) /\ Char(s, i) \in set THEN Char(s, i) \o RunOf(s, i + 1, set) ELSE ""

(***************************************************************************)
(* boost::asio::ip::address_v4 / address_v6 from_string and to_string:     *)
(* inet_pton and inet_ntop.  A conversion yields [ok, bytes].              *)
(***************************************************************************)
BadAddress == [ok |-> FALSE, bytes |-> <<>>]

\* inet_pton4: four decimal octets of value <= 255 without leading zero,
\* separated by single dots, and nothing else.  octets is the count stored
\* so far, cur the value of the octet being read.
RECURSIVE inet_pton4_loop(_, _, _, _, _)
inet_pton4_loop(src, i, saw_digit, octets, tp) ==
    IF i > Len(src)
    THEN IF octets < V4Bytes THEN BadAddress ELSE [ok |-> TRUE, bytes |-> tp]
    ELSE LET ch == Char(src, i) IN
         IF ch \in Digits
         THEN LET cur == IF octets = 0 THEN 0 ELSE tp[octets]
                  new == (IF saw_digit THEN cur * 10 ELSE 0) + DigitValue(ch)
              IN  IF saw_digit /\ cur = 0 THEN BadAddress
                  ELSE IF new > ByteMax THEN BadAddress
                  ELSE IF ~saw_digit
                       THEN IF octets + 1 > V4Bytes THEN BadAddress
                            ELSE inet_pton4_loop(src, i + 1, TRUE, octets + 1,
                                                 Append(tp, new))
                       ELSE inet_pton4_loop(src, i + 1, TRUE, octets,
                                            [tp EXCEPT ![octets] = new])
         ELSE IF ch = "." /\ saw_digit
              THEN IF octets = V4Bytes THEN BadAddress
                   ELSE inet_pton4_loop(src, i + 1, FALSE, octets, tp)
              ELSE BadAddress

inet_pton4(src) == inet_pton4_loop(src, 1, FALSE, 0, <<>>)

\* inet_ntop4: "%u.%u.%u.%u"
inet_ntop4(bytes) ==
    Decimal(bytes[1]) \o "." \o Decimal(bytes[2]) \o "." \o Decimal(bytes[3])
        \o "." \o Decimal(bytes[4])

\* the 16 bytes with the bytes stored from colonp on moved to the end and the
\* gap filled with zeros (the "::" of the text)
ShiftToEnd(tp, colonp) ==
    [k \in 1..V6Bytes |->
        IF k <= colonp THEN tp[k]
        ELSE IF k > V6Bytes - (Len(tp) - colonp) THEN tp[k - (V6Bytes - Len(tp))]
        ELSE 0]

\* the end of inet_pton6: the pending group stored, the "::" expanded
inet_pton6_end(saw_xdigit, val, tp, colonp) ==
    IF saw_xdigit > 0 /\ Len(tp) + 2 > V6Bytes THEN BadAddress
    ELSE LET full == IF saw_xdigit > 0
                     THEN tp \o <<val \div (ByteMax + 1), val % (ByteMax + 1)>>
                     ELSE tp
         IN  IF colonp >= 0
             THEN IF Len(full) = V6Bytes THEN BadAddress
                  ELSE [ok |-> TRUE, bytes |-> ShiftToEnd(full, colonp)]
             ELSE IF Len(full) # V6Bytes THEN BadAddress
                  ELSE [ok |-> TRUE, bytes |-> full]

\* the dotted IPv4 tail of an IPv6 text, converted by inet_pton4 to v4
inet_pton6_dotted(v4, tp, colonp) ==
    IF v4.ok THEN inet_pton6_end(0, 0, tp \o v4.bytes, colonp) ELSE BadAddress

\* the character loop of inet_pton6: curtok is where the current group
\* starts, saw_xdigit the count of hex digits of it, val its value, tp the
\* bytes stored, colonp the count of bytes stored before "::" (or -1)
RECURSIVE inet_pton6_loop(_, _, _, _, _, _, _)
inet_pton6_loop(src, i, curtok, saw_xdigit, val, tp, colonp) ==
    IF i > Len(src) THEN inet_pton6_end(saw_xdigit, val, tp, colonp)
    ELSE LET ch == Char(src, i) IN
         IF ch \in HexDigits
         THEN IF saw_xdigit + 1 > 4 THEN BadAddress
              ELSE inet_pton6_loop(src, i + 1, curtok, saw_xdigit + 1,
                                   val * 16 + DigitValue(ch), tp, colonp)
         ELSE IF ch = ":"
         THEN IF saw_xdigit = 0
              THEN IF colonp >= 0 THEN BadAddress
                   ELSE inet_pton6_loop(src, i + 1, i + 1, 0, 0, tp, Len(tp))
              ELSE IF i = Len(src) THEN BadAddress
              ELSE IF Len(tp) + 2 > V6Bytes THEN BadAddress
              ELSE inet_pton6_loop(src, i + 1, i + 1, 0, 0,
                                   tp \o <<val \div (ByteMax + 1), val % (ByteMax + 1)>>,
                                   colonp)
         ELSE IF ch = "." /\ Len(tp) + V4Bytes <= V6Bytes
         THEN inet_pton6_dotted(inet_pton4(From(src, curtok)), tp, colonp)
         ELSE BadAddress

\* inet_pton6: a leading ':' must start "::"
inet_pton6(src) ==
    IF Len(src) >= 1 /\ Char(src, 1) = ":"
    THEN IF Len(src) >= 2 /\ Char(src, 2) = ":"
         THEN inet_pton6_loop(src, 2, 2, 0, 0, <<>>, -1)
         ELSE BadAddress
    ELSE inet_pton6_loop(src, 1, 1, 0, 0, <<>>, -1)

\* the eight 16-bit words of the 16 bytes
Words(bytes) == [w \in 1..(V6Bytes \div 2) |-> bytes[2 * w - 1] * (ByteMax + 1) + bytes[2 * w]]

\* the length of the run of zero words that starts at word w
RECURSIVE ZeroRun(_, _)
ZeroRun(words, w) ==
    IF w > Len(words) \/ words[w] # 0 THEN 0 ELSE 1 + ZeroRun(words, w + 1)

\* inet_ntop6's best run: the first longest run of at least two zero words,
\* as [base, len] (base 0 when there is none)
BestRun(words) ==
    LET starts == { w \in 1..Len(words) :
                      /\ (w = 1 \/ words[w - 1] # 0)
                      /\ ZeroRun(words, w) >= 2 }
    IN  IF starts = {} THEN [base |-> 0, len |-> 0]
        ELSE LET b == CHOOSE w \in starts :
                        \A v \in starts :
                           \/ ZeroRun(words, v) < ZeroRun(words, w)
                           \/ (ZeroRun(words, v) = ZeroRun(words, w) /\ w <= v)
             IN  [base |-> b, len |-> ZeroRun(words, b)]

\* the loop of inet_ntop6 from word w on
RECURSIVE inet_ntop6_loop(_, _, _, _)
inet_ntop6_loop(bytes, words, best, w) ==
    IF w > Len(words)
    THEN IF best.base # 0 /\ best.base + best.len = Len(words) + 1 THEN ":" ELSE ""
    ELSE IF best.base # 0 /\ w >= best.base /\ w < best.base + best.len
         THEN (IF w = best.base THEN ":" ELSE "")
                  \o inet_ntop6_loop(bytes, words, best, w + 1)
         ELSE (IF w # 1 THEN ":" ELSE "")
                  \o (IF /\ w = 7 /\ best.base = 1
                         /\ (best.len = 6 \/ (best.len = 5 /\ words[6] = 65535))
                      THEN inet_ntop4(SubSeq(bytes, V6Bytes - V4Bytes + 1, V6Bytes))
                      ELSE Hex(words[w]) \o inet_ntop6_loop(bytes, words, best, w + 1))

inet_ntop6(bytes) == inet_ntop6_loop(bytes, Words(bytes), BestRun(Words(bytes)), 1)

\* AddressType::from_string(str, ec)
from_string(fam, str) == IF fam = "v4" THEN inet_pton4(str) ELSE inet_pton6(str)

\* address.to_string()
to_string(fam, bytes) == IF fam = "v4" THEN inet_ntop4(bytes) ELSE inet_ntop6(bytes)

(***************************************************************************)
(* std::istream: the buffer, the get position and the state bits.          *)
(***************************************************************************)
\* is.good()
good(s) == ~s.eof /\ ~s.fail

\* the stream in a condition: !is.fail()
ok(s) == ~s.fail

\* is.setstate(std::ios_base::failbit)
setfail(s) == [s EXCEPT !.fail = TRUE]

\* is.clear()
clear(s) == [s EXCEPT !.eof = FALSE, !.fail = FALSE]

\* is.peek() on a good stream: the next character, or end of input, which
\* sets eofbit
peek(s) ==
    IF s.pos < Len(s.buf)
    THEN [is |-> s, ch |-> Char(s.buf, s.pos + 1)]
    ELSE [is |-> [s EXCEPT !.eof = TRUE], ch |-> "EOF"]

\* no character extracted
ignore_nothing(s) == s

\* is.ignore(): one character extracted and dropped
ignore(s) ==
    IF s.pos < Len(s.buf) THEN [s EXCEPT !.pos = s.pos + 1] ELSE [s EXCEPT !.eof = TRUE]

(***************************************************************************)
(* stream_operations.hpp declares putback, read_ip_address and             *)
(* read_prefix_length; their bodies are not part of the sources at hand.   *)
(* They are modelled from their documentation and from the specification   *)
(* of the parser: an address is the longest run of the family's address    *)
(* characters and must convert; a prefix length is a non-empty run of      *)
(* decimal digits; a failed read leaves the get position where it was.     *)
(***************************************************************************)
\* putback(is, str): the characters of str are put back, last one first; the
\* get position moves back by Len(str) and the stream is no longer at its end
putback(s, str) ==
    IF Len(str) > s.pos THEN setfail(s)
    ELSE [s EXCEPT !.buf = SubSeq(s.buf, 1, s.pos - Len(str)) \o str
                              \o From(s.buf, s.pos + 1),
                   !.pos = s.pos - Len(str),
                   !.eof = FALSE]

\* the characters an address of the family is written with
AddressCharacters(fam) ==
    IF fam = "v4" THEN Digits \cup {"."} ELSE HexDigits \cup {":", "."}

\* the stream after `run` has been read character by character, each read
\* preceded by a peek: reaching the end of input sets eofbit
after_run(s, run) ==
    [s EXCEPT !.pos = s.pos + Len(run), !.eof = (s.pos + Len(run) = Len(s.buf))]

\* read_ip_address, once the run of address characters has been read
read_ip_address_run(fam, s, run) ==
    IF from_string(fam, run).ok
    THEN [is |-> after_run(s, run), str |-> run]
    ELSE [is |-> setfail(putback(after_run(s, run), run)), str |-> ""]

\* read_ip_address<AddressType>(is, ip_address)
read_ip_address(fam, s) ==
    IF ~good(s) THEN [is |-> s, str |-> ""]
    ELSE read_ip_address_run(fam, s, RunOf(s.buf, s.pos + 1, AddressCharacters(fam)))

\* read_prefix_length, once the run of digits has been read
read_prefix_length_run(s, run) ==
    IF run # ""
    THEN [is |-> after_run(s, run), str |-> run]
    ELSE [is |-> setfail(after_run(s, run)), str |-> ""]

\* read_prefix_length<AddressType>(is, prefix_length)
read_prefix_length(fam, s) ==
    IF ~good(s) THEN [is |-> s, str |-> ""]
    ELSE read_prefix_length_run(s, RunOf(s.buf, s.pos + 1, Digits))

(***************************************************************************)
(* ip_network_address.cpp: the parse and print operators.                  *)
(***************************************************************************)
\* the failure branch of a bad prefix length putting back the address only
restore_after_bad_prefix_no_slash(s, ip_address) ==
    setfail(putback(s, ip_address))

\* putback(is, ip_address + '/'); is.setstate(std::ios_base::failbit);
restore_after_bad_prefix(s, ip_address) ==
    setfail(putback(s, ip_address \o "/"))

\* putback(is, ip_address); is.setstate(std::ios_base::failbit);
restore_after_no_slash(s, ip_address) ==
    setfail(putback(s, ip_address))

\* read_ip_address_prefix_length after read_prefix_length has returned p
after_prefix_length(a, p) ==
    IF ~ok(p.is)
    THEN [is |-> restore_after_bad_prefix(p.is, a.str),
          ip_address |-> a.str, prefix_length |-> p.str]
    ELSE [is |-> p.is, ip_address |-> a.str, prefix_length |-> p.str]

\* read_ip_address_prefix_length after read_ip_address has returned a
after_ip_address(fam, a) ==
    IF ~ok(a.is) THEN [is |-> a.is, ip_address |-> a.str, prefix_length |-> ""]
    ELSE IF good(a.is) /\ peek(a.is).ch = "/"
         THEN after_prefix_length(a, read_prefix_length(fam, ignore(peek(a.is).is)))
         ELSE [is |-> restore_after_no_slash(
                          IF good(a.is) THEN peek(a.is).is ELSE a.is, a.str),
               ip_address |-> a.str, prefix_length |-> ""]

\* read_ip_address_prefix_length<AddressType>(is, ip_address, prefix_length)
read_ip_address_prefix_length(fam, s) ==
    IF ~good(s) THEN [is |-> s, ip_address |-> "", prefix_length |-> ""]
    ELSE after_ip_address(fam, read_ip_address(fam, s))

\* boost::lexical_cast<unsigned int>(str) converts: str is a non-empty text
\* of decimal digits whose value fits an unsigned int (otherwise it throws)
lexical_cast_converts(str) ==
    /\ str # ""
    /\ \A i \in 1..Len(str) : Char(str, i) \in Digits
    /\ LET d == StripZeros(str) IN
         \/ Len(d) < Len(UIntMaxDigits)
         \/ (Len(d) = Len(UIntMaxDigits) /\ ~DigitsLess(UIntMaxDigits, d))

\* the value boost::lexical_cast<unsigned int>(str) yields
lexical_cast(str) == DecimalValue(str)

\* value = base_ip_network_address<AddressType>(AddressType::from_string(
\*     ip_address), boost::lexical_cast<unsigned int>(prefix_length)), where
\* address is what from_string yields: either conversion may throw
assign_network_address(fam, r, address, value) ==
    IF address.ok /\ lexical_cast_converts(r.prefix_length)
    THEN [is |-> r.is, threw |-> FALSE,
          value |-> NetworkAddress(fam, address.bytes, lexical_cast(r.prefix_length))]
    ELSE [is |-> r.is, threw |-> TRUE, value |-> value]

\* operator>> after read_ip_address_prefix_length has returned r
after_read(fam, r, value) ==
    IF ok(r.is)
    THEN assign_network_address(fam, r, from_string(fam, r.ip_address), value)
    ELSE [is |-> r.is, threw |-> FALSE, value |-> value]

\* operator>>(std::istream&, base_ip_network_address<AddressType>&): the
\* stream after, the value after, and whether from_string or lexical_cast threw
parse_network_address(fam, s, value) ==
    after_read(fam, read_ip_address_prefix_length(fam, s), value)

\* the prefix length printed in hexadecimal (the stream's base left as it was)
print_network_address_hex(value) ==
    to_string(value.fam, value.address) \o "/" \o Hex(value.prefix_length)

\* operator<<(std::ostream&, const base_ip_network_address<AddressType>&):
\*   os << value.address().to_string() << "/" << std::dec << value.prefix_length()
print_network_address(value) ==
    to_string(value.fam, value.address) \o "/" \o Decimal(value.prefix_length)

\* the stream left as the failed IPv6 attempt left it
after_failed_v6_no_clear(s) == s

\* is.clear() after the failed IPv6 attempt
after_failed_v6(s) == clear(s)

\* is.clear() after the failed IPv4 attempt
after_failed_v4(s) == clear(s)

\* the IPv4 attempt whose failure resets the value to the null address
after_v4_attempt_resets(r, value) ==
    IF r.threw THEN [is |-> r.is, threw |-> TRUE, value |-> value, matched |-> "none"]
    ELSE IF ok(r.is)
         THEN [is |-> r.is, threw |-> FALSE, value |-> r.value, matched |-> "v4"]
         ELSE [is |-> after_failed_v4(r.is), threw |-> FALSE,
               value |-> DefaultNetworkAddress("v4"), matched |-> "none"]

\* the IPv4 attempt of the variant's operator>> after "is >> ina" returned r
after_v4_attempt(r, value) ==
    IF r.threw THEN [is |-> r.is, threw |-> TRUE, value |-> value, matched |-> "none"]
    ELSE IF ok(r.is)
         THEN [is |-> r.is, threw |-> FALSE, value |-> r.value, matched |-> "v4"]
         ELSE [is |-> after_failed_v4(r.is), threw |-> FALSE, value |-> value,
               matched |-> "none"]

\* the second block of the variant's operator>>: the IPv4 attempt
parse_union_v4(s, value) ==
    IF ok(s)
    THEN after_v4_attempt(
             parse_network_address("v4", s, DefaultNetworkAddress("v4")), value)
    ELSE [is |-> s, threw |-> FALSE, value |-> value, matched |-> "none"]

\* the IPv6 attempt of the variant's operator>> after "is >> ina" returned r
after_v6_attempt(r, value) ==
    IF r.threw THEN [is |-> r.is, threw |-> TRUE, value |-> value, matched |-> "none"]
    ELSE IF ok(r.is)
         THEN [is |-> r.is, threw |-> FALSE, value |-> r.value, matched |-> "v6"]
         ELSE parse_union_v4(after_failed_v6(r.is), value)

\* operator>>(std::istream&, ip_network_address&): the IPv6 attempt, then the
\* IPv4 attempt; `matched` is the family assigned to value, or "none"
parse_union(s, value) ==
    IF ok(s)
    THEN after_v6_attempt(
             parse_network_address("v6", s, DefaultNetworkAddress("v6")), value)
    ELSE parse_union_v4(s, value)

(***************************************************************************)
(* The inputs the containment operations are applied to.                   *)
(***************************************************************************)
\* the bit k of an address, bit 0 the most significant bit of the first byte
Bit(bytes, k) == (bytes[(k \div ByteBits) + 1] \div Pow2(ByteBits - 1 - (k % ByteBits))) % 2

FlipBit(bytes, k) ==
    [bytes EXCEPT ![(k \div ByteBits) + 1] = BitXor(@, Pow2(ByteBits - 1 - (k % ByteBits)))]

Bases(fam) ==
    IF fam = "v4"
    THEN { <<192, 168, 1, 0>>, <<0, 0, 0, 0>>, <<255, 255, 255, 255>>,
           <<10, 0, 0, 1>>, <<170, 85, 15, 240>> }
    ELSE { ZeroBytes("v6"),
           [i \in 1..V6Bytes |-> ByteMax],
           <<32, 1, 13, 184, 0, 0, 0, 0, 0, 0, 0, 0, 170, 85, 0, 1>> }

\* a itself, a with one bit flipped, a with one bit and the last bit flipped,
\* and the other sample addresses of the family
Probes(fam, a) ==
    {a}
    \cup { FlipBit(a, k) : k \in 0..(Width(fam) - 1) }
    \cup { FlipBit(FlipBit(a, k), Width(fam) - 1) : k \in 0..(Width(fam) - 2) }
    \cup Bases(fam)

Prefixes(fam) == (0..(Width(fam) + MaxExcess)) \cup {2147483647}

\* the first 4 bytes of a v6 address as a v4 address, and a v4 address as the
\* head of a v6 address or as its IPv4-mapped form: the same bit patterns
\* carried over to the other family
HeadV4(b6) == [i \in 1..V4Bytes |-> b6[i]]

AsHeadV6(b4) == [i \in 1..V6Bytes |-> IF i <= V4Bytes THEN b4[i] ELSE 0]

AsMappedV6(b4) ==
    [i \in 1..V6Bytes |->
        IF i > V6Bytes - V4Bytes THEN b4[i - (V6Bytes - V4Bytes)]
        ELSE IF i > V6Bytes - V4Bytes - 2 THEN ByteMax ELSE 0]

AnyAddresses ==
    { IpAddress("v4", b) : b \in Bases("v4") \cup { HeadV4(c) : c \in Bases("v6") } }
    \cup { IpAddress("v6", b) :
             b \in Bases("v6") \cup { AsHeadV6(c) : c \in Bases("v4") }
                               \cup { AsMappedV6(c) : c \in Bases("v4") } }

UnionPrefixes(fam) == {0, 1, 7, 8, 9, 24, Width(fam) - 1, Width(fam), 2147483647}
                      \cup (Width(fam)..(Width(fam) + MaxExcess))

UnionNets ==
    UNION { { NetworkAddress(a.fam, a.bytes, p) : p \in UnionPrefixes(a.fam) } :
            a \in AnyAddresses }

ListNets ==
    { NetworkAddress("v4", <<192, 168, 1, 0>>, 24),
      NetworkAddress("v4", <<10, 0, 0, 1>>, 8),
      NetworkAddress("v4", <<10, 0, 0, 1>>, 32),
      NetworkAddress("v4", <<0, 0, 0, 0>>, 0),
      NetworkAddress("v6", ZeroBytes("v6"), 0),
      NetworkAddress("v6", AsHeadV6(<<10, 0, 0, 1>>), 8) }

ListProbes ==
    { IpAddress("v4", <<192, 168, 1, 200>>), IpAddress("v4", <<10, 0, 0, 1>>),
      IpAddress("v4", <<10, 1, 2, 3>>), IpAddress("v4", <<11, 0, 0, 1>>),
      IpAddress("v6", AsHeadV6(<<10, 0, 0, 1>>)), IpAddress("v6", AsHeadV6(<<11, 0, 0, 1>>)) }

Lists == UNION { [1..n -> ListNets] : n \in 0..MaxListLen }

\* the network addresses compared and tested for null: both families over
\* the same leading bytes, the all-zero address among them
EqualAddresses ==
    { IpAddress("v4", ZeroBytes("v4")), IpAddress("v4", <<10, 0, 0, 1>>),
      IpAddress("v4", <<10, 0, 0, 0>>),
      IpAddress("v6", ZeroBytes("v6")), IpAddress("v6", AsHeadV6(<<10, 0, 0, 1>>)),
      IpAddress("v6", AsMappedV6(<<10, 0, 0, 1>>)) }

EqualPrefixes == {0, 1, 8, 32, 128, 2147483647}

EqualNets ==
    { NetworkAddress(a.fam, a.bytes, p) : a \in EqualAddresses, p \in EqualPrefixes }

(***************************************************************************)
(* Equality of network addresses and the null network address.             *)
(***************************************************************************)
equal_address_only(lhs, rhs) == lhs.address = rhs.address

\* operator==(base_ip_network_address, base_ip_network_address): the
\* addresses are equal and the prefix lengths are equal
equal(lhs, rhs) ==
    (lhs.address = rhs.address) /\ (lhs.prefix_length = rhs.prefix_length)

\* operator!=(base_ip_network_address, base_ip_network_address)
not_equal(lhs, rhs) == ~equal(lhs, rhs)

\* operator== of boost::variant<ipv4_network_address, ipv6_network_address>:
\* the same alternative is held, and the held values are equal
variant_equal(lhs, rhs) ==
    IF lhs.fam # rhs.fam THEN FALSE ELSE equal(lhs, rhs)

\* operator!=(ip_network_address, ip_network_address)
variant_not_equal(lhs, rhs) == ~variant_equal(lhs, rhs)

\* base_ip_network_address::null()
null(fam) == DefaultNetworkAddress(fam)

is_null_prefix_only(net) == net.prefix_length = 0

\* base_ip_network_address::is_null()
is_null(net) == equal(net, null(net.fam))

(***************************************************************************)
(* The state after construction: an empty stream, default constructed      *)
(* targets, nothing to print.  A call is drawn with its arguments and is   *)
(* pending until the operation has returned its outcome.                   *)
(***************************************************************************)
NoValue == [fam |-> "none"]

NoCall == [op |-> "none", done |-> TRUE]

\* std::istringstream(str): the buffer, the get position (characters read so
\* far) and the eofbit and failbit of the stream state
IStream(str) == [buf |-> str, pos |-> 0, eof |-> FALSE, fail |-> FALSE]

IdleStreams ==
    /\ is = IStream("")
    /\ value4 = DefaultNetworkAddress("v4")
    /\ value6 = DefaultNetworkAddress("v6")
    /\ valueU = DefaultNetworkAddress("v4")
    /\ origin = NoValue

\* a client just constructed, and an empty values map
IdleClient ==
    /\ m_data = ""
    /\ values = {}

(***************************************************************************)
(* SpecNet: the containment operations, each applied to the drawn call.    *)
(***************************************************************************)
HasAddressCall(fam, a, p, b) ==
    [op |-> "has_address", done |-> FALSE,
     net |-> NetworkAddress(fam, a, p), addr |-> IpAddress(fam, b)]

UnionHasAddressCall(ina, addr) ==
    [op |-> "union_has_address", done |-> FALSE, net |-> ina, addr |-> addr]

RangeHasAddressCall(list, addr) ==
    [op |-> "range_has_address", done |-> FALSE, list |-> list, addr |-> addr]

EqualsCall(lhs, rhs) == [op |-> "equals", done |-> FALSE, lhs |-> lhs, rhs |-> rhs]

IsNullCall(net) == [op |-> "is_null", done |-> FALSE, net |-> net]

NullCall(fam) == [op |-> "null", done |-> FALSE, fam |-> fam]

InitNet ==
    /\ \/ \E fam \in Families :
            \E a \in Bases(fam) :
              \E p \in Prefixes(fam) :
                \E b \in Probes(fam, a) : call = HasAddressCall(fam, a, p, b)
       \/ \E ina \in UnionNets :
            \E addr \in AnyAddresses : call = UnionHasAddressCall(ina, addr)
       \/ \E list \in Lists :
            \E addr \in ListProbes : call = RangeHasAddressCall(list, addr)
       \/ \E lhs \in EqualNets : \E rhs \in EqualNets : call = EqualsCall(lhs, rhs)
       \/ \E net \in EqualNets : call = IsNullCall(net)
       \/ \E fam \in Families : call = NullCall(fam)
    /\ IdleStreams
    /\ IdleClient

\* ina.has_address(addr) on a family-specific network address
CallHasAddress ==
    /\ call.op = "has_address" /\ ~call.done
    /\ call' = [op |-> "has_address", done |-> TRUE, net |-> call.net, addr |-> call.addr,
                out |-> Returned(has_address(call.net, call.addr.bytes))]
    /\ UNCHANGED <<m_data, values, is, value4, value6, valueU, origin>>

\* has_address(ina, addr) on an ip_network_address
CallUnionHasAddress ==
    /\ call.op = "union_has_address" /\ ~call.done
    /\ call' = [op |-> "union_has_address", done |-> TRUE, net |-> call.net,
                addr |-> call.addr, out |-> has_address_union(call.net, call.addr)]
    /\ UNCHANGED <<m_data, values, is, value4, value6, valueU, origin>>

\* has_address(begin, end, addr) on a list of ip_network_address
CallRangeHasAddress ==
    /\ call.op = "range_has_address" /\ ~call.done
    /\ call' = [op |-> "range_has_address", done |-> TRUE, list |-> call.list,
                addr |-> call.addr, out |-> has_address_range(call.list, call.addr)]
    /\ UNCHANGED <<m_data, values, is, value4, value6, valueU, origin>>

\* lhs == rhs and lhs != rhs on two ip_network_address
CallEquals ==
    /\ call.op = "equals" /\ ~call.done
    /\ call' = [op |-> "equals", done |-> TRUE, lhs |-> call.lhs, rhs |-> call.rhs,
                eq |-> variant_equal(call.lhs, call.rhs),
                ne |-> variant_not_equal(call.lhs, call.rhs)]
    /\ UNCHANGED <<m_data, values, is, value4, value6, valueU, origin>>

\* net.is_null()
CallIsNull ==
    /\ call.op = "is_null" /\ ~call.done
    /\ call' = [op |-> "is_null", done |-> TRUE, net |-> call.net,
                out |-> is_null(call.net)]
    /\ UNCHANGED <<m_data, values, is, value4, value6, valueU, origin>>

\* base_ip_network_address::null() and base_ip_network_address(), then
\* is_null() on each of the two
CallNull ==
    /\ call.op = "null" /\ ~call.done
    /\ call' = [op |-> "null", done |-> TRUE, fam |-> call.fam,
                null |-> null(call.fam),
                constructed |-> DefaultNetworkAddress(call.fam),
                null_is_null |-> is_null(null(call.fam)),
                constructed_is_null |-> is_null(DefaultNetworkAddress(call.fam))]
    /\ UNCHANGED <<m_data, values, is, value4, value6, valueU, origin>>

NextNet ==
    \/ CallHasAddress \/ CallUnionHasAddress \/ CallRangeHasAddress
    \/ CallEquals \/ CallIsNull \/ CallNull

SpecNet == InitNet /\ [][NextNet]_vars

(***************************************************************************)
(* Spec: the stream operators.  The stream is drawn with its text, or a    *)
(* network address is drawn to be printed into the stream; then the parse  *)
(* operators read from it, in any order, any number of times.              *)
(***************************************************************************)
AddressTexts ==
    { "10.0.0.1", "192.168.1.0", "255.255.255.255", "256.1.1.1", "1.2.3",
      "01.2.3.4", "1.2.3.4.5", "::1", "::", "2001:db8::1", "2001:DB8::1",
      "::ffff:1.2.3.4", "1:2:3:4:5:6:7:8", "1::2::3", "1:2", "", "x", "g::1", ":" }

TailTexts ==
    { "", "/", "/24", "/0", "/32", "/128", "/129", "/24 ", "/24x", "/x", "/ 24",
      " /24", "/-1", "/+1", "/024", "/2147483647", "/4294967296", "/99999999999",
      "/24/8", "/2147483647x", "/4294967296x" }

InputTexts ==
    { a \o t : a \in AddressTexts, t \in TailTexts }
    \cup { " 10.0.0.1/24", "10.0.0.1/8 ::1/128", "10.0.0.1/8::1/128",
           "::1/12810.0.0.1/8", "10.0.0.1/24\n", "10.0.0.1:80" }

PrintAddresses ==
    { IpAddress("v4", b) : b \in Bases("v4") \cup { <<192, 168, 1, 200>> } }
    \cup { IpAddress("v6", b) :
             b \in Bases("v6")
                   \cup { AsMappedV6(<<1, 2, 3, 4>>), AsHeadV6(<<10, 0, 0, 1>>),
                          [ZeroBytes("v6") EXCEPT ![V6Bytes] = 1],
                          [ZeroBytes("v6") EXCEPT ![V6Bytes - 3] = 1, ![V6Bytes] = 4],
                          <<0, 1, 0, 0, 0, 0, 0, 2, 0, 0, 0, 0, 0, 0, 0, 3>>,
                          <<0, 1, 0, 0, 0, 0, 0, 2, 0, 0, 0, 0, 0, 3, 0, 4>>,
                          <<254, 128, 0, 0, 0, 0, 0, 0, 2, 0, 94, 255, 254, 0, 83, 1>> } }

PrintPrefixes == {0, 1, 8, 24, 32, 33, 64, 128, 129, 255, 2147483647}

PrintNets ==
    { NetworkAddress(a.fam, a.bytes, p) : a \in PrintAddresses, p \in PrintPrefixes }

\* the targets of operator>> as their constructors leave them: default
\* constructed, or constructed from an address and a prefix length
HeldV4 == NetworkAddress("v4", <<192, 168, 1, 0>>, 24)

HeldV6 == NetworkAddress("v6", <<32, 1, 13, 184, 0, 0, 0, 0, 0, 0, 0, 0, 0, 0, 0, 0>>, 32)

Init ==
    /\ call = NoCall
    /\ \/ /\ value4 = DefaultNetworkAddress("v4")
          /\ value6 = DefaultNetworkAddress("v6")
          /\ valueU = DefaultNetworkAddress("v4")
       \/ /\ value4 = HeldV4
          /\ value6 = HeldV6
          /\ valueU = HeldV6
    /\ \/ (is \in { IStream(t) : t \in InputTexts } /\ origin = NoValue)
       \/ (is = IStream("") /\ origin \in PrintNets)
    /\ IdleClient

ParseCall(op, r) ==
    [op |-> op, done |-> TRUE, pre |-> is, threw |-> r.threw,
     matched |-> IF op = "parse_union" THEN r.matched
                 ELSE IF ok(r.is) /\ ~r.threw THEN op ELSE "none"]

ParseV4Returns(r) ==
    /\ is' = r.is
    /\ value4' = r.value
    /\ call' = ParseCall("v4", r)
    /\ UNCHANGED <<m_data, values, value6, valueU, origin>>

\* is >> value4
ParseV4 == ParseV4Returns(parse_network_address("v4", is, value4))

ParseV6Returns(r) ==
    /\ is' = r.is
    /\ value6' = r.value
    /\ call' = ParseCall("v6", r)
    /\ UNCHANGED <<m_data, values, value4, valueU, origin>>

\* is >> value6
ParseV6 == ParseV6Returns(parse_network_address("v6", is, value6))

ParseUnionReturns(r) ==
    /\ is' = r.is
    /\ valueU' = r.value
    /\ call' = ParseCall("parse_union", r)
    /\ UNCHANGED <<m_data, values, value4, value6, origin>>

\* is >> valueU
ParseUnion == ParseUnionReturns(parse_union(is, valueU))

\* is.clear(), by the caller, after a failed parse
Clear ==
    /\ ~good(is)
    /\ is' = clear(is)
    /\ call' = [op |-> "clear", done |-> TRUE, pre |-> is, threw |-> FALSE,
                matched |-> "none"]
    /\ UNCHANGED <<m_data, values, value4, value6, valueU, origin>>

\* os << origin, into the stream the parse operators then read
Write ==
    /\ origin # NoValue
    /\ is.buf = ""
    /\ is' = IStream(print_network_address(origin))
    /\ call' = [op |-> "write", done |-> TRUE, pre |-> is, threw |-> FALSE,
                matched |-> "none"]
    /\ UNCHANGED <<m_data, values, value4, value6, valueU, origin>>

Next == ParseV4 \/ ParseV6 \/ ParseUnion \/ Clear \/ Write

Spec == Init /\ [][Next]_vars

(***************************************************************************)
(* Claims about parsing and printing, checked under Spec.                  *)
(***************************************************************************)
ParseOps == {"v4", "v6", "parse_union"}

\* the last call was a parse that returned without assigning its target
ParseFailed ==
    /\ call.op \in ParseOps /\ call.done
    /\ ~call.threw
    /\ call.matched = "none"

\* what is still to be read from a stream
Unread(s) == From(s.buf, s.pos + 1)

C1_WitnessAtEnd ==
    /\ ParseFailed
    /\ call.op = "v6"
    /\ call.pre = IStream("2001:db8::1")
    /\ is.fail
    /\ is.pos = 0

\* neither family's operator>> reads a network address from stream s
NeitherFamilyAccepts(s) ==
    /\ ~ok(parse_network_address("v6", s, DefaultNetworkAddress("v6")).is)
    /\ ~ok(parse_network_address("v4", clear(s), DefaultNetworkAddress("v4")).is)

\* C2: a variant parse of input that neither the IPv6 nor the IPv4 grammar
\* accepts returns the stream in a failed state.
C2_UnionFailureReported ==
    (/\ call.op = "parse_union" /\ call.done
     /\ good(call.pre)
     /\ NeitherFamilyAccepts(call.pre))
        => is.fail

\* C4: for a text that only the IPv4 grammar accepts, the variant parse
\* succeeds, holds an IPv4 network address, and leaves the value and the
\* stream exactly as the IPv4 parse of the same text does.
C4_FallbackToV4 ==
    (/\ call.op = "parse_union" /\ call.done
     /\ good(call.pre)
     /\ ~ok(parse_network_address("v6", call.pre, DefaultNetworkAddress("v6")).is)
     /\ ok(parse_network_address("v4", call.pre, DefaultNetworkAddress("v4")).is)
     /\ ~parse_network_address("v4", call.pre, DefaultNetworkAddress("v4")).threw)
        => /\ ~call.threw
           /\ call.matched = "v4"
           /\ valueU.fam = "v4"
           /\ valueU = parse_network_address("v4", call.pre,
                                             DefaultNetworkAddress("v4")).value
           /\ is = parse_network_address("v4", call.pre,
                                         DefaultNetworkAddress("v4")).is

\* the variant parse of "10.0.0.1/24x" yields the IPv4 network 10.0.0.1/24
C4_Witness ==
    /\ call.op = "parse_union" /\ call.done
    /\ call.pre = IStream("10.0.0.1/24x")
    /\ call.matched = "v4"
    /\ valueU = NetworkAddress("v4", <<10, 0, 0, 1>>, 24)
    /\ ok(is)

\* the target of the family-specific operator>> of family fam
ValueOf(fam) == IF fam = "v4" THEN value4 ELSE value6

\* C5: a network address printed by operator<< and parsed by its family's
\* operator>> from the start of that text is read back equal: the parse
\* succeeds and yields the same address and the same prefix length.
C5_RoundTrip ==
    (/\ origin # NoValue
     /\ call.op = origin.fam /\ call.done
     /\ call.pre = IStream(print_network_address(origin)))
        => /\ ~call.threw
           /\ ok(is)
           /\ ValueOf(origin.fam) = origin

\* the IPv4-mapped ::ffff:1.2.3.4 with prefix length 129, printed and read back
C5_Witness ==
    /\ origin = NetworkAddress("v6", AsMappedV6(<<1, 2, 3, 4>>), 129)
    /\ call.op = "v6" /\ call.done
    /\ call.pre = IStream("::ffff:1.2.3.4/129")
    /\ value6 = origin

(***************************************************************************)
(* Claims about containment, checked under SpecNet.                        *)
(***************************************************************************)
HasAddressDone == call.op = "has_address" /\ call.done

\* the leading p bits of a and b are equal
LeadingBitsEqual(a, b, p) == \A k \in 0..(p - 1) : Bit(a, k) = Bit(b, k)

Range(seq) == { seq[i] : i \in 1..Len(seq) }

Reverse(seq) == [i \in 1..Len(seq) |-> seq[Len(seq) + 1 - i]]

\* C3: for a prefix length p not above the family's bit width, has_address is
\* true exactly when the leading p bits of the network's address and of the
\* probe are equal; no later bit has any influence.
C3_LeadingBitsDecide ==
    (HasAddressDone /\ call.net.prefix_length <= Width(call.net.fam))
        => (call.out.ret
              <=> LeadingBitsEqual(call.net.address, call.addr.bytes,
                                   call.net.prefix_length))

\* a prefix that ends inside a byte, the probe differing from the network's
\* address in that boundary byte (below the prefix) and still contained
C3_Witness ==
    /\ HasAddressDone
    /\ call.net.prefix_length < Width(call.net.fam)
    /\ call.net.prefix_length % ByteBits # 0
    /\ call.net.address[(call.net.prefix_length \div ByteBits) + 1]
           # call.addr.bytes[(call.net.prefix_length \div ByteBits) + 1]
    /\ call.out.ret

\* C6: a variant holding a network of one family never has an address of the
\* other family: has_address returns false, and nothing is thrown (the probe
\* is never converted to the other family).
C6_CrossFamilyFalse ==
    (call.op = "union_has_address" /\ call.done /\ call.net.fam # call.addr.fam)
        => call.out = Returned(FALSE)

\* an IPv4 network of prefix length 0, which has every IPv4 address, asked
\* for an IPv6 address whose leading bytes are the network's own
C6_Witness ==
    /\ call.op = "union_has_address" /\ call.done
    /\ call.net.fam = "v4" /\ call.addr.fam = "v6"
    /\ call.net.prefix_length = 0
    /\ HeadV4(call.addr.bytes) = call.net.address
    /\ call.out = Returned(FALSE)

\* C7: with a prefix length equal to or above the family's bit width,
\* has_address is true exactly when the probe equals the network's address.
C7_FullPrefixExact ==
    (HasAddressDone /\ call.net.prefix_length >= Width(call.net.fam))
        => (call.out.ret <=> call.addr.bytes = call.net.address)

\* a prefix above the width and a probe that differs in the very last bit only
C7_Witness ==
    /\ HasAddressDone
    /\ call.net.prefix_length > Width(call.net.fam)
    /\ call.addr.bytes = FlipBit(call.net.address, Width(call.net.fam) - 1)
    /\ ~call.out.ret

\* C8: a network of prefix length 0 has every address of its family.
C8_ZeroPrefixUniversal ==
    (HasAddressDone /\ call.net.prefix_length = 0) => call.out.ret

\* prefix length 0 and a probe whose first byte differs from the network's
C8_Witness ==
    /\ HasAddressDone
    /\ call.net.prefix_length = 0
    /\ call.net.address[1] # call.addr.bytes[1]
    /\ call.out.ret

\* C9: a network has its own address, whatever the prefix length.
C9_Reflexive ==
    (HasAddressDone /\ call.addr.bytes = call.net.address) => call.out.ret

\* a network asked for its own (non-zero) address with a prefix above the width
C9_Witness ==
    /\ HasAddressDone
    /\ call.addr.bytes = call.net.address
    /\ call.net.address # ZeroBytes(call.net.fam)
    /\ call.net.prefix_length > Width(call.net.fam)
    /\ call.out.ret

\* C10: the range form is true exactly when some element has the address;
\* it is false for the empty list, and the answer is that of the reversed
\* list and of the list with every element repeated.
C10_RangeIsAny ==
    (call.op = "range_has_address" /\ call.done)
        => /\ ~call.out.threw
           /\ call.out.ret
                <=> (\E e \in Range(call.list) : has_address_union(e, call.addr).ret)
           /\ (call.list = <<>>) => ~call.out.ret
           /\ has_address_range(Reverse(call.list), call.addr).ret = call.out.ret
           /\ has_address_range(call.list \o call.list, call.addr).ret = call.out.ret

\* three elements of which only the second has the address
C10_Witness ==
    /\ call.op = "range_has_address" /\ call.done
    /\ Len(call.list) = 3
    /\ ~has_address_union(call.list[1], call.addr).ret
    /\ has_address_union(call.list[2], call.addr).ret
    /\ ~has_address_union(call.list[3], call.addr).ret
    /\ call.out.ret

\* C11: two ip_network_address values are equal exactly when they hold the
\* same family and the held network addresses have the same address bytes and
\* the same prefix length; an IPv4 value never equals an IPv6 value; and
\* operator!= is the exact negation of operator==.
C11_UnionEquality ==
    (call.op = "equals" /\ call.done) =>
        /\ call.eq <=> (/\ call.lhs.fam = call.rhs.fam
                        /\ call.lhs.address = call.rhs.address
                        /\ call.lhs.prefix_length = call.rhs.prefix_length)
        /\ (call.lhs.fam # call.rhs.fam) => ~call.eq
        /\ call.ne <=> ~call.eq

\* same family, same address bytes, different prefix lengths: not equal
C11_Witness ==
    /\ call.op = "equals" /\ call.done
    /\ call.lhs.fam = call.rhs.fam
    /\ call.lhs.address = call.rhs.address
    /\ call.lhs.prefix_length # call.rhs.prefix_length
    /\ ~call.eq /\ call.ne

\* the all-zero addresses of the two families with the same prefix length
C11_WitnessAcrossFamilies ==
    /\ call.op = "equals" /\ call.done
    /\ call.lhs = NetworkAddress("v4", ZeroBytes("v4"), 0)
    /\ call.rhs = NetworkAddress("v6", ZeroBytes("v6"), 0)
    /\ ~call.eq /\ call.ne

\* C14: is_null() is true exactly when the address is the all-zero address of
\* the family and the prefix length is 0; null() and the default constructor
\* produce that value; an all-zero address with a nonzero prefix length is
\* not null, and a nonzero address with prefix length 0 is not null.
C14_NullIsZeroAndZero ==
    /\ (call.op = "is_null" /\ call.done) =>
          (call.out <=> (/\ \A i \in 1..NBytes(call.net.fam) : call.net.address[i] = 0
                         /\ call.net.prefix_length = 0))
    /\ (call.op = "null" /\ call.done) =>
          /\ call.null = NetworkAddress(call.fam, [i \in 1..NBytes(call.fam) |-> 0], 0)
          /\ call.constructed = call.null
          /\ call.null_is_null /\ call.constructed_is_null

\* a nonzero address with prefix length 0 is not null
C14_Witness ==
    /\ call.op = "is_null" /\ call.done
    /\ call.net.prefix_length = 0
    /\ \E i \in 1..NBytes(call.net.fam) : call.net.address[i] # 0
    /\ ~call.out

\* the all-zero address with a nonzero prefix length is not null
C14_WitnessZeroAddress ==
    /\ call.op = "is_null" /\ call.done
    /\ call.net.address = ZeroBytes(call.net.fam)
    /\ call.net.prefix_length > 0
    /\ ~call.out

\* the index of the first element of the list that has the address, or the
\* length of the list when none has it
FirstContaining(list, addr) ==
    LET containing == { i \in 1..Len(list) : has_address_union(list[i], addr).ret }
    IN  IF containing = {} THEN Len(list)
        ELSE CHOOSE i \in containing : \A j \in containing : i <= j

\* C13: the range form evaluates the elements strictly in list order and
\* stops at the first element that has the address: every element before it
\* is evaluated exactly once, and no element after it is evaluated.
C13_RangeStopsAtFirst ==
    (call.op = "range_has_address" /\ call.done)
        => /\ Len(call.out.evaluated) = FirstContaining(call.list, call.addr)
           /\ \A i \in 1..Len(call.out.evaluated) : call.out.evaluated[i] = i

\* the second and the third element have the address, the first does not:
\* the first two are evaluated, the third is not
C13_Witness ==
    /\ call.op = "range_has_address" /\ call.done
    /\ Len(call.list) = 3
    /\ ~has_address_union(call.list[1], call.addr).ret
    /\ has_address_union(call.list[2], call.addr).ret
    /\ has_address_union(call.list[3], call.addr).ret
    /\ call.out.evaluated = <<1, 2>>

\* the prefix lengths not above p among those drawn
PrefixesUpTo(fam, p) == { q \in Prefixes(fam) : q <= p }

\* C17: containment is monotone in the prefix length (a network (a, p) that
\* has b also has b under every prefix length q <= p) and symmetric in the
\* two addresses ((a, p) has b exactly when (b, p) has a).
C17_MonotoneAndSymmetric ==
    HasAddressDone =>
        /\ call.out.ret =>
              \A q \in PrefixesUpTo(call.net.fam, call.net.prefix_length) :
                  has_address(NetworkAddress(call.net.fam, call.net.address, q),
                              call.addr.bytes)
        /\ call.out.ret
              <=> has_address(NetworkAddress(call.net.fam, call.addr.bytes,
                                             call.net.prefix_length),
                              call.net.address)

\* a prefix that ends inside a byte, a probe that differs from the network's
\* address below the prefix only: contained, under every shorter prefix too
C17_Witness ==
    /\ HasAddressDone
    /\ call.net.prefix_length % ByteBits # 0
    /\ call.net.prefix_length < Width(call.net.fam)
    /\ call.addr.bytes # call.net.address
    /\ call.out.ret
    /\ has_address(NetworkAddress(call.net.fam, call.addr.bytes, call.net.prefix_length),
                   call.net.address)
    /\ \A q \in 0..call.net.prefix_length :
          has_address(NetworkAddress(call.net.fam, call.net.address, q), call.addr.bytes)

\* the address part of a text: its longest run of the family's address
\* characters; and the digits that follow the character after that run
AddressPart(fam, text) == RunOf(text, 1, AddressCharacters(fam))

PrefixPart(fam, text) == RunOf(text, Len(AddressPart(fam, text)) + 2, Digits)

\* the text is ADDRESS "/" PREFIX_LENGTH followed by further characters: a
\* valid address of the family, a slash, digits that denote an unsigned int
WellFormedThenMore(fam, text) ==
    /\ from_string(fam, AddressPart(fam, text)).ok
    /\ Len(text) > Len(AddressPart(fam, text))
    /\ Char(text, Len(AddressPart(fam, text)) + 1) = "/"
    /\ lexical_cast_converts(PrefixPart(fam, text))
    /\ Len(text) > Len(AddressPart(fam, text)) + 1 + Len(PrefixPart(fam, text))

\* C12: a family-specific parse of ADDRESS "/" PREFIX_LENGTH followed by
\* further characters succeeds; it consumes exactly the address, the slash
\* and the digits, the further characters remain to be read, and the value
\* is the one the consumed text denotes.
C12_TrailingInputLeft ==
    (/\ call.op \in Families /\ call.done
     /\ ~call.pre.fail
     /\ WellFormedThenMore(call.op, Unread(call.pre)))
        => /\ ~call.threw
           /\ ok(is) /\ ~is.eof
           /\ is.buf = call.pre.buf
           /\ is.pos = call.pre.pos + Len(AddressPart(call.op, Unread(call.pre))) + 1
                                    + Len(PrefixPart(call.op, Unread(call.pre)))
           /\ Unread(is) # ""
           /\ ValueOf(call.op)
                = NetworkAddress(call.op,
                      from_string(call.op, AddressPart(call.op, Unread(call.pre))).bytes,
                      DecimalValue(PrefixPart(call.op, Unread(call.pre))))

\* "10.0.0.1/24x" read as IPv4: 10.0.0.1/24 is the value, "x" is left
C12_Witness ==
    /\ call.op = "v4" /\ call.done
    /\ call.pre = IStream("10.0.0.1/24x")
    /\ value4 = NetworkAddress("v4", <<10, 0, 0, 1>>, 24)
    /\ ok(is) /\ is.pos = 11 /\ Unread(is) = "x"

\* "10.0.0.1/8::1/128" read as IPv4 and then as IPv6 from where the first
\* parse stopped: the second parse finds no address before the "/"
C12_WitnessNextParse ==
    /\ call.op = "v6" /\ call.done
    /\ call.pre.buf = "10.0.0.1/8::1/128" /\ call.pre.pos = 10
    /\ value4 = NetworkAddress("v4", <<10, 0, 0, 1>>, 8)
    /\ call.matched = "v6"
    /\ value6.prefix_length = 128

\* C16: a parse that does not succeed leaves its destination as it was, for
\* the family-specific parses and for the variant parse; a variant parse
\* whose IPv6 and IPv4 attempts both fail keeps the family and the contents
\* the destination held before (it is not reset to the null address).
C16_FailedParseKeepsTarget ==
    [][ (call'.op \in ParseOps /\ call'.matched = "none")
            => (value4' = value4 /\ value6' = value6 /\ valueU' = valueU) ]_vars

\* a variant that holds an IPv6 network still holds it after a parse in
\* which both attempts ran and failed
C16_Witness ==
    /\ ParseFailed /\ call.op = "parse_union"
    /\ ~call.pre.fail
    /\ NeitherFamilyAccepts(call.pre)
    /\ valueU = HeldV6
    /\ valueU # DefaultNetworkAddress("v6")

\* an IPv4 target that holds 192.168.1.0/24 still holds it after a failed
\* IPv4 parse that had read the address and the slash
C16_WitnessFamily ==
    /\ ParseFailed /\ call.op = "v4"
    /\ call.pre = IStream("10.0.0.1/x")
    /\ value4 = HeldV4

(***************************************************************************)
(* The HTTP client: perform_request clears the receive buffer, performs    *)
(* the request (the write function read_data receives the body chunk by    *)
(* chunk), tests the response code and the content type, and decodes the   *)
(* body, a JSON object of string members, into the caller's map.           *)
(***************************************************************************)
\* if (response_code != 200)
HttpOk == 200

JsonContentType == "application/json"

Letters == {"a", "b", "c", "d"}

\* the i-th character of text, or "" past its end
At(text, i) == IF i >= 1 /\ i <= Len(text) THEN Char(text, i) ELSE ""

\* rapidjson: a string at position i, the characters between two quotes
ReadString(json, i) ==
    IF /\ At(json, i) = "\""
       /\ At(json, i + 1 + Len(RunOf(json, i + 1, Letters))) = "\""
    THEN [ok |-> TRUE, str |-> RunOf(json, i + 1, Letters),
          next |-> i + 2 + Len(RunOf(json, i + 1, Letters))]
    ELSE [ok |-> FALSE, str |-> "", next |-> i]

\* a string read as a value
string_value(r) == [ok |-> r.ok, is_string |-> TRUE, str |-> r.str, next |-> r.next]

\* rapidjson: a value at position i: a string, a number or an empty array
ReadValue(json, i) ==
    IF At(json, i) = "\"" THEN string_value(ReadString(json, i))
    ELSE IF At(json, i) = "0"
         THEN [ok |-> TRUE, is_string |-> FALSE, str |-> "0", next |-> i + 1]
    ELSE IF RunOf(json, i, Digits) # ""
         THEN [ok |-> TRUE, is_string |-> FALSE, str |-> RunOf(json, i, Digits),
               next |-> i + Len(RunOf(json, i, Digits))]
    ELSE IF At(json, i) = "[" /\ At(json, i + 1) = "]"
         THEN [ok |-> TRUE, is_string |-> FALSE, str |-> "[]", next |-> i + 2]
    ELSE [ok |-> FALSE, is_string |-> FALSE, str |-> "", next |-> i]

\* the member whose name has been read: a colon and the value
member_value(json, name, v) ==
    [ok |-> v.ok, name |-> name.str, is_string |-> v.is_string, value |-> v.str,
     next |-> v.next]

member_after_name(json, name) ==
    IF name.ok /\ At(json, name.next) = ":"
    THEN member_value(json, name, ReadValue(json, name.next + 1))
    ELSE [ok |-> FALSE, name |-> "", is_string |-> FALSE, value |-> "", next |-> name.next]

\* rapidjson: a member of an object at position i
ReadMember(json, i) == member_after_name(json, ReadString(json, i))

NoMembers == [ok |-> FALSE, members |-> <<>>, next |-> 0]

\* rapidjson: the members of an object from position i to the closing brace
RECURSIVE ReadMembers(_, _, _)
RECURSIVE members_after(_, _, _)
members_after(json, m, members) ==
    IF ~m.ok THEN NoMembers
    ELSE IF At(json, m.next) = "," THEN ReadMembers(json, m.next + 1, Append(members, m))
    ELSE IF At(json, m.next) = "}"
         THEN [ok |-> TRUE, members |-> Append(members, m), next |-> m.next + 1]
    ELSE NoMembers

ReadMembers(json, i, members) == members_after(json, ReadMember(json, i), members)

ParseError == [error |-> TRUE, is_object |-> FALSE, members |-> <<>>]

\* the root object has been read: nothing may follow it
object_read(json, r) ==
    IF r.ok /\ r.next = Len(json) + 1
    THEN [error |-> FALSE, is_object |-> TRUE, members |-> r.members]
    ELSE ParseError

\* rapidjson::Document::Parse<0>: the root is an object or an array
Parse(json) ==
    IF At(json, 1) = "{"
    THEN IF At(json, 2) = "}"
         THEN object_read(json, [ok |-> TRUE, members |-> <<>>, next |-> 3])
         ELSE object_read(json, ReadMembers(json, 2, <<>>))
    ELSE IF json = "[]" THEN [error |-> FALSE, is_object |-> FALSE, members |-> <<>>]
    ELSE ParseError

\* values[name] = value on a std::map<std::string, std::string>, a set of
\* <<name, value>> pairs with one pair per name
Put(map, name, value) == { e \in map : e[1] # name } \cup { <<name, value>> }

\* the member loop of json_to_values from the i-th member on
RECURSIVE store_members(_, _, _)
store_members(members, i, map) ==
    IF i > Len(members) THEN [threw |-> FALSE, values |-> map]
    ELSE IF ~members[i].is_string THEN [threw |-> TRUE, values |-> map]
    ELSE store_members(members, i + 1, Put(map, members[i].name, members[i].value))

\* json_to_values once the document has been parsed
after_parse(document, map) ==
    IF document.error \/ ~document.is_object THEN [threw |-> TRUE, values |-> map]
    ELSE store_members(document.members, 1, map)

\* json_to_values(json, values): values.clear(), then the parse
json_to_values(json, map) == after_parse(Parse(json), {})

\* the buffer left as it was
m_data_kept(data) == data

\* m_data.clear()
m_data_clear(data) == ""

\* client::read_data: m_data.append(_data, data_len)
read_data(data, buf) == data \o buf

\* curl::perform, which is not among the sources at hand: the write function
\* set by configure_request receives the chunks of the body one by one
RECURSIVE perform(_, _, _)
perform(data, chunks, i) ==
    IF i > Len(chunks) THEN data ELSE perform(read_data(data, chunks[i]), chunks, i + 1)

\* the outcome of perform_request once json_to_values has returned
decoded(data, r) == [m_data |-> data, values |-> r.values, threw |-> r.threw]

\* perform_request after request.perform() has left `data` in the buffer
after_perform(data, map, response) ==
    IF response.fails THEN [m_data |-> data, values |-> map, threw |-> TRUE]
    ELSE IF response.code # HttpOk THEN [m_data |-> data, values |-> map, threw |-> TRUE]
    ELSE IF response.content_type # JsonContentType
         THEN [m_data |-> data, values |-> map, threw |-> TRUE]
    ELSE decoded(data, json_to_values(data, map))

\* client::perform_request(request, url, values)
perform_request(data, map, response) ==
    after_perform(perform(m_data_clear(data), response.chunks, 1), map, response)

(***************************************************************************)
(* SpecClient: requests performed one after the other by one client, each  *)
(* answered by a response drawn from Responses.                            *)
(***************************************************************************)
\* the places a body is cut at
Cuts == {2, 5}

\* a body in one chunk (none when it is empty), in two chunks, and in three
Chunkings(text) ==
    IF text = "" THEN { <<>> }
    ELSE { <<text>> }
         \cup { <<SubSeq(text, 1, k), From(text, k + 1)>> : k \in Cuts \cap 1..(Len(text) - 1) }
         \cup { <<SubSeq(text, 1, 1), SubSeq(text, 2, k), From(text, k + 1)>> :
                   k \in Cuts \cap 2..(Len(text) - 1) }

Bodies ==
    { "{\"a\":\"b\"}", "{\"a\":\"b\",\"c\":\"d\"}", "{\"a\":\"b\",\"a\":\"c\"}", "{}",
      "[]", "{\"a\":1}", "{\"a\":\"b\",\"c\":1}", "{\"a\":\"b\"", "x", "{\"c\":\"d\"}x", "" }

ChunkLists ==
    UNION { Chunkings(b) : b \in Bodies }

\* the response code and content type of a response, and whether perform()
\* ended with an exception
Answers ==
    { [code |-> 200, content_type |-> "application/json", fails |-> FALSE],
      [code |-> 200, content_type |-> "application/json; charset=utf-8", fails |-> FALSE],
      [code |-> 200, content_type |-> "text/html", fails |-> FALSE],
      [code |-> 201, content_type |-> "application/json", fails |-> FALSE],
      [code |-> 404, content_type |-> "application/json", fails |-> FALSE],
      [code |-> 0, content_type |-> "", fails |-> TRUE] }

Responses ==
    { [code |-> a.code, content_type |-> a.content_type, fails |-> a.fails,
       chunks |-> c] : a \in Answers, c \in ChunkLists }

\* the maps a caller hands in: empty, or holding values of an earlier use
CallerValues == { {}, { <<"a", "old">>, <<"name", "old">> } }

InitClient ==
    /\ call = NoCall
    /\ m_data = ""
    /\ values \in CallerValues
    /\ IdleStreams

PerformRequestReturns(response, r) ==
    /\ m_data' = r.m_data
    /\ values' = r.values
    /\ call' = [op |-> "perform_request", done |-> TRUE, response |-> response,
                pre_data |-> m_data, pre_values |-> values, threw |-> r.threw]
    /\ UNCHANGED <<is, value4, value6, valueU, origin>>

\* perform_request(request, url, values), the server answering with response
PerformRequest ==
    \E response \in Responses :
        PerformRequestReturns(response, perform_request(m_data, values, response))

NextClient == PerformRequest

SpecClient == InitClient /\ [][NextClient]_vars

\* the chunks one after the other
RECURSIVE Concat(_)
Concat(chunks) == IF chunks = <<>> THEN "" ELSE Head(chunks) \o Concat(Tail(chunks))

RequestDone == call.op = "perform_request" /\ call.done

\* the response asks for the body to be decoded
Decodable(response) ==
    /\ ~response.fails
    /\ response.code = 200
    /\ response.content_type = "application/json"

\* C15: perform_request decodes the body into the caller's map only when the
\* response code is 200 and the content type is exactly "application/json";
\* in every other case it raises an error and leaves the map as it was.  The
\* buffer is cleared before the request is performed, so the body decoded is
\* the chunks read_data received during this request, in the order received.
C15_DecodeOnlyJsonOk ==
    RequestDone =>
        /\ ~Decodable(call.response) => (call.threw /\ values = call.pre_values)
        /\ m_data = Concat(call.response.chunks)
        /\ Decodable(call.response) =>
              /\ values = json_to_values(Concat(call.response.chunks), call.pre_values).values
              /\ call.threw
                   = json_to_values(Concat(call.response.chunks), call.pre_values).threw

\* a second request, the buffer still holding the body of the first: the two
\* chunks of this response are decoded, and nothing of the earlier body
C15_Witness ==
    /\ RequestDone
    /\ call.pre_data = "{\"c\":\"d\"}x"
    /\ call.response.chunks = <<"{", "\"a\":", "\"b\"}">>
    /\ Decodable(call.response)
    /\ ~call.threw
    /\ call.pre_values # {}
    /\ values = { <<"a", "b">> }

\* a response with code 200 and a content type that only starts with
\* "application/json": an error, and the map filled by an earlier request is
\* left as it was
C15_WitnessRefused ==
    /\ RequestDone
    /\ call.response.code = 200
    /\ call.response.content_type = "application/json; charset=utf-8"
    /\ call.response.chunks = <<"{\"a\":\"b\"}">>
    /\ call.threw
    /\ call.pre_values = { <<"a", "b">>, <<"c", "d">> }
    /\ values = call.pre_values

====
